---- MODULE Spec2Model ----
(***************************************************************************)
(* Model of playMusic.py (AudioPlayer): the sequencer play_sequence, the   *)
(* playback engine play_audio, the progress reporter thread                *)
(* update_progress_bar, the inter-track wait display_next_track_and_wait   *)
(* and signal_handler (specification Spec), and of the directory scan     *)
(* get_audio_files with get_audio_metadata (specification SpecCatalog).   *)
(*                                                                         *)
(* Time is discrete, TicksPerSec ticks to the second.  The code reads its  *)
(* clocks only as differences (now - start_time), so the model keeps the   *)
(* differences: elapsed_time of each reporter thread, elapsed_time of the  *)
(* wait, and the time the main thread has spent where it is.  Time passes  *)
(* only where the main thread blocks or spins (the busy loop on the sink,  *)
(* select, sleep, interpreter shutdown) and, by at most Slop ticks,        *)
(* between a wake-up and the next clock sample of the wait loop.           *)
(***************************************************************************)
EXTENDS Integers, Sequences, FiniteSets, TLC

\* ---------------------------------------------------------------- bounds
MaxTracks == 2
MaxLen == 2
MaxTimeout == 3
MaxTyped == 1
TicksPerSec == 2
Slop == 1
MaxFiles == 3

\* ------------------------------------------------------------- constants
\* 1E-6 of update_progress_bar, as the ratio (EpsDen + 1) / EpsDen
EpsDen == 1000000
\* the timeout argument of select.select and the argument of time.sleep
SelectSeconds == 1
SleepSeconds == 1

NoLine == <<"-">>
Lines == { <<>>, <<"\n">>, <<" ", "\n">>, <<"x", "\n">> }

VARIABLES
    audio_list,        \* the catalog handed to play_sequence
    isatty,            \* sys.stdin.isatty()
    timeout,           \* self.timeout, whole seconds
    pc,                \* position of the main thread
    i,                 \* loop variable of play_sequence (1-indexed)
    mixerInit,         \* pygame.mixer is initialised
    sinkLoaded,        \* index of the track loaded in pygame.mixer.music, 0 if none
    sinkPlaying,       \* pygame.mixer.music.get_busy()
    progress_bar,      \* self.progress_bar: 0 is None, n the bar of reporter n
    bars,              \* the tqdm bar of each reporter thread: [n, closed], or NoBar
    rpc,               \* position of each reporter thread
    elapsed_time,      \* clock - start_time of each reporter thread
    pb_pos,            \* pb_pos of each reporter thread
    notices,           \* "unknown length" notices printed by each reporter
    lingering,         \* the reporter polled after its bar was closed, before the end, and loops on
    wait_elapsed,      \* time.time() - start_time of display_next_track_and_wait
    dwell,             \* time the main thread has spent at its position in the wait
    user_input_received,
    line,              \* line of display_next_track_and_wait
    stdin,             \* lines typed and not yet read
    typed,             \* number of lines typed so far
    wait,              \* what the current wait has done: iterations, selects, reads, sleeps
    calls,             \* the calls made by play_sequence, in order
    unloaded,          \* the tracks for which play_audio unloaded the sink
    signalled,         \* signal_handler has run
    sigAt,             \* where it ran: phase of the main thread, and whether a reporter ran
    exitStatus,
    files,             \* the supported-or-not files os.walk yields, in traversal order
    fi,                \* index in files of the file get_audio_files is at
    gpc,               \* position of get_audio_files
    metadata,          \* self.metadata during get_audio_files
    audio_files,       \* self.audio_files
    arrival            \* the first line typed during the current wait: the time since, and where the wait was

vars == << audio_list, isatty, timeout, pc, i, mixerInit, sinkLoaded,
           sinkPlaying, progress_bar, bars, rpc, elapsed_time, pb_pos, notices,
           lingering, wait_elapsed, dwell, user_input_received, line, stdin,
           typed, wait, calls, unloaded, signalled, sigAt, exitStatus,
           files, fi, gpc, metadata, audio_files, arrival >>

\* get_audio_files has returned when play_sequence starts: playback leaves
\* its variables alone
catVars  == << files, fi, gpc, metadata, audio_files >>
envVars  == << audio_list, isatty, timeout, catVars >>
sinkVars == << mixerInit, sinkLoaded, sinkPlaying >>
repVars  == << progress_bar, bars, rpc, elapsed_time, pb_pos, notices, lingering >>
waitVars == << wait_elapsed, dwell, user_input_received, line, wait, arrival >>
inVars   == << stdin, typed >>
sigVars  == << signalled, sigAt, exitStatus >>

Tracks == 1..MaxTracks
NoBar == [n |-> -1, closed |-> TRUE]
NoWait == [iter |-> 0, select |-> 0, read |-> 0, sleep |-> 0, lines |-> <<>>]
NoArrival == [age |-> -1, at |-> "none", line |-> NoLine]
total_tracks == Len(audio_list)

\* a track of the catalog: its metadata length and whether the sink can load it
TrackSet == [length : 0..MaxLen, loadable : BOOLEAN]

\* self.metadata = {}: a key that is not set holds -1 (numbers) or NoText
NoText == <<"<absent>">>
EmptyMetadata ==
    [length |-> -1, bitrate |-> -1, sample_rate |-> -1, channels |-> NoText,
     title |-> NoText, artist |-> NoText, album |-> NoText, genre |-> NoText]

Running(n) == rpc[n] \notin {"none", "done"}
LiveReporters == {n \in Tracks : Running(n)}

Init ==
    /\ audio_list \in UNION {[1..k -> TrackSet] : k \in 1..MaxTracks}
    /\ isatty \in BOOLEAN
    /\ timeout \in 0..MaxTimeout
    /\ pc = "seq_next"
    /\ i = 1
    /\ mixerInit = FALSE
    /\ sinkLoaded = 0
    /\ sinkPlaying = FALSE
    /\ progress_bar = 0
    /\ bars = [n \in Tracks |-> NoBar]
    /\ rpc = [n \in Tracks |-> "none"]
    /\ elapsed_time = [n \in Tracks |-> 0]
    /\ pb_pos = [n \in Tracks |-> 0]
    /\ notices = [n \in Tracks |-> 0]
    /\ lingering = [n \in Tracks |-> FALSE]
    /\ wait_elapsed = 0
    /\ dwell = 0
    /\ user_input_received = FALSE
    /\ line = NoLine
    /\ stdin = <<>>
    /\ typed = 0
    /\ wait = NoWait
    /\ arrival = NoArrival
    /\ calls = <<>>
    /\ unloaded = {}
    /\ signalled = FALSE
    /\ sigAt = [phase |-> "none", live |-> FALSE]
    /\ exitStatus = -1
    /\ files = <<>>
    /\ fi = 1
    /\ gpc = "returned"
    /\ metadata = EmptyMetadata
    /\ audio_files = <<>>

\* ------------------------------------------------------------ play_sequence
\* for i, track in enumerate(audio_list, 1): ... self.play_audio(track['path'], track)
seq_next ==
    /\ pc = "seq_next"
    /\ IF i <= total_tracks
         THEN /\ calls' = Append(calls, <<"play_audio", i>>)
              /\ pc' = "pa_init"
         ELSE /\ calls' = calls
              /\ pc' = "finished"
    /\ UNCHANGED << envVars, i, sinkVars, repVars, waitVars, inVars, unloaded,
                    sigVars >>

\* seq_after with the comparison off by one: a wait after the final track too
seq_after_le ==
    /\ pc = "seq_after"
    /\ IF i <= total_tracks
         THEN /\ calls' = Append(calls, <<"wait", i + 1>>)
              /\ pc' = "w_enter"
              /\ i' = i
         ELSE /\ calls' = calls
              /\ pc' = "seq_next"
              /\ i' = i + 1
    /\ UNCHANGED << envVars, sinkVars, repVars, waitVars, inVars, unloaded,
                    sigVars >>

\* if i < total_tracks: self.display_next_track_and_wait(audio_list, i + 1)
seq_after ==
    /\ pc = "seq_after"
    /\ IF i < total_tracks
         THEN /\ calls' = Append(calls, <<"wait", i + 1>>)
              /\ pc' = "w_enter"
              /\ i' = i
         ELSE /\ calls' = calls
              /\ pc' = "seq_next"
              /\ i' = i + 1
    /\ UNCHANGED << envVars, sinkVars, repVars, waitVars, inVars, unloaded,
                    sigVars >>

\* --------------------------------------------------------------- play_audio
\* pygame.init(); pygame.mixer.init()
pa_init ==
    /\ pc = "pa_init"
    /\ mixerInit' = TRUE
    /\ pc' = "pa_load"
    /\ UNCHANGED << envVars, i, sinkLoaded, sinkPlaying, repVars, waitVars,
                    inVars, calls, unloaded, sigVars >>

\* pa_load without the return of the except clause
pa_load_noreturn ==
    /\ pc = "pa_load"
    /\ IF audio_list[i].loadable
         THEN /\ sinkLoaded' = i
              /\ sinkPlaying' = FALSE
              /\ pc' = "pa_start"
         ELSE /\ UNCHANGED << sinkLoaded, sinkPlaying >>
              /\ pc' = "pa_start"
    /\ UNCHANGED << envVars, i, mixerInit, repVars, waitVars, inVars, calls,
                    unloaded, sigVars >>

\* try: pygame.mixer.music.load(file_path)  except Exception: print; return
pa_load ==
    /\ pc = "pa_load"
    /\ IF audio_list[i].loadable
         THEN /\ sinkLoaded' = i
              /\ sinkPlaying' = FALSE
              /\ pc' = "pa_start"
         ELSE /\ UNCHANGED << sinkLoaded, sinkPlaying >>
              /\ pc' = "seq_after"
    /\ UNCHANGED << envVars, i, mixerInit, repVars, waitVars, inVars, calls,
                    unloaded, sigVars >>

\* pb_thread = threading.Thread(target=self.update_progress_bar, ...); pb_thread.start()
pa_start ==
    /\ pc = "pa_start"
    /\ rpc' = [rpc EXCEPT ![i] = "start"]
    /\ pc' = "pa_play"
    /\ UNCHANGED << envVars, i, sinkVars, progress_bar, bars, elapsed_time,
                    pb_pos, notices, lingering, waitVars, inVars, calls,
                    unloaded, sigVars >>

\* pygame.mixer.music.play(1)
pa_play ==
    /\ pc = "pa_play"
    /\ sinkPlaying' = TRUE
    /\ pc' = "pa_busy"
    /\ UNCHANGED << envVars, i, mixerInit, sinkLoaded, repVars, waitVars,
                    inVars, calls, unloaded, sigVars >>

\* while pygame.mixer.music.get_busy(): pass
pa_busy ==
    /\ pc = "pa_busy"
    /\ ~sinkPlaying
    /\ pc' = "pa_close"
    /\ UNCHANGED << envVars, i, sinkVars, repVars, waitVars, inVars, calls,
                    unloaded, sigVars >>

\* tqdm.close(): closing a closed bar changes nothing
CloseBar(b, n) == IF n = 0 THEN b ELSE [b EXCEPT ![n].closed = TRUE]

\* if self.progress_bar: self.progress_bar.close()
pa_close ==
    /\ pc = "pa_close"
    /\ bars' = CloseBar(bars, progress_bar)
    /\ pc' = "pa_unload"
    /\ UNCHANGED << envVars, i, sinkVars, progress_bar, rpc, elapsed_time,
                    pb_pos, notices, lingering, waitVars, inVars, calls,
                    unloaded, sigVars >>

\* pygame.mixer.music.unload(), then return
pa_unload ==
    /\ pc = "pa_unload"
    /\ sinkLoaded' = 0
    /\ sinkPlaying' = FALSE
    /\ unloaded' = unloaded \cup {i}
    /\ pc' = "seq_after"
    /\ UNCHANGED << envVars, i, mixerInit, repVars, waitVars, inVars, calls,
                    sigVars >>

\* ------------------------------------------------------ update_progress_bar
total_length(n) == audio_list[n].length

\* round(elapsed_time, 3): get_ticks() counts whole milliseconds, so the
\* elapsed time is a whole number of clock units and rounding to the nearest
\* unit leaves it as it is
Round3(e) == (2 * e + 1) \div 2

Min(a, b) == IF a <= b THEN a ELSE b

\* R_Start without the test of total_length == 0
R_Start_nocheck(n) ==
    /\ rpc[n] = "start"
    /\ notices' = notices
    /\ rpc' = [rpc EXCEPT ![n] = "created"]
    /\ bars' = [bars EXCEPT ![n] = [n |-> 0, closed |-> FALSE]]
    /\ UNCHANGED << envVars, pc, i, sinkVars, progress_bar, elapsed_time,
                    pb_pos, lingering, waitVars, inVars, calls, unloaded,
                    sigVars >>

\* if total_length == 0: print(...); return -- else: with tqdm(total=...) as pb
R_Start(n) ==
    /\ rpc[n] = "start"
    /\ IF total_length(n) = 0
         THEN /\ notices' = [notices EXCEPT ![n] = @ + 1]
              /\ rpc' = [rpc EXCEPT ![n] = "done"]
              /\ bars' = bars
         ELSE /\ notices' = notices
              /\ rpc' = [rpc EXCEPT ![n] = "created"]
              /\ bars' = [bars EXCEPT ![n] = [n |-> 0, closed |-> FALSE]]
    /\ UNCHANGED << envVars, pc, i, sinkVars, progress_bar, elapsed_time,
                    pb_pos, lingering, waitVars, inVars, calls, unloaded,
                    sigVars >>

\* self.progress_bar = pb; start_time = pygame.time.get_ticks() / 1000.0
R_Assign(n) ==
    /\ rpc[n] = "created"
    /\ progress_bar' = n
    /\ elapsed_time' = [elapsed_time EXCEPT ![n] = 0]
    /\ rpc' = [rpc EXCEPT ![n] = "loop"]
    /\ UNCHANGED << envVars, pc, i, sinkVars, bars, pb_pos, notices, lingering,
                    waitVars, inVars, calls, unloaded, sigVars >>

\* elapsed_time >= total_length * (1 + 1E-6)
PastEnd(elapsed, total) == elapsed * EpsDen >= total * (EpsDen + 1)

\* one turn of the while True loop up to the call of pb.update: the break
\* (followed by pb.close()), or get_busy(), which raises once the mixer has
\* been quit (the with block then closes the bar and the thread ends, and
\* its locals with it)
R_Poll(n) ==
    /\ rpc[n] = "loop"
    /\ IF PastEnd(elapsed_time[n], total_length(n)) \/ ~mixerInit
         THEN /\ rpc' = [rpc EXCEPT ![n] = "done"]
              /\ bars' = CloseBar(bars, n)
              /\ elapsed_time' = [elapsed_time EXCEPT ![n] = 0]
              /\ lingering' = [lingering EXCEPT ![n] = FALSE]
              /\ pb_pos' = pb_pos
         ELSE /\ bars' = bars
              /\ elapsed_time' = elapsed_time
              /\ lingering' = [lingering EXCEPT ![n] =
                     bars[n].closed /\ elapsed_time[n] < total_length(n)]
              /\ IF sinkPlaying
                   THEN /\ pb_pos' = [pb_pos EXCEPT ![n] =
                              Min(Round3(elapsed_time[n]), total_length(n))]
                        /\ rpc' = [rpc EXCEPT ![n] = "update"]
                   ELSE UNCHANGED << pb_pos, rpc >>
    /\ UNCHANGED << envVars, pc, i, sinkVars, progress_bar, notices, waitVars,
                    inVars, calls, unloaded, sigVars >>

\* tqdm.update(d): nothing on a closed bar, else n += d
BarUpdate(bar, d) == IF bar.closed THEN bar ELSE [bar EXCEPT !.n = @ + d]

\* R_Update passing the position instead of the difference: pb.update(pb_pos)
R_Update_absolute(n) ==
    /\ rpc[n] = "update"
    /\ bars' = [bars EXCEPT ![n] = BarUpdate(@, pb_pos[n])]
    /\ pb_pos' = [pb_pos EXCEPT ![n] = 0]
    /\ rpc' = [rpc EXCEPT ![n] = "loop"]
    /\ UNCHANGED << envVars, pc, i, sinkVars, progress_bar, elapsed_time,
                    notices, lingering, waitVars, inVars, calls, unloaded,
                    sigVars >>

\* pb.update(pb_pos - pb.n); pb_pos is not read again before the next turn
\* assigns it
R_Update(n) ==
    /\ rpc[n] = "update"
    /\ bars' = [bars EXCEPT ![n] = BarUpdate(@, pb_pos[n] - @.n)]
    /\ pb_pos' = [pb_pos EXCEPT ![n] = 0]
    /\ rpc' = [rpc EXCEPT ![n] = "loop"]
    /\ UNCHANGED << envVars, pc, i, sinkVars, progress_bar, elapsed_time,
                    notices, lingering, waitVars, inVars, calls, unloaded,
                    sigVars >>

\* ---------------------------------------------- display_next_track_and_wait
IsSpace(c) == c \in {" ", "\n"}

RECURSIVE LStrip(_)
LStrip(s) == IF s # <<>> /\ IsSpace(Head(s)) THEN LStrip(Tail(s)) ELSE s

RECURSIVE RStrip(_)
RStrip(s) == IF s # <<>> /\ IsSpace(s[Len(s)])
               THEN RStrip(SubSeq(s, 1, Len(s) - 1)) ELSE s

\* str.strip()
Strip(s) == RStrip(LStrip(s))

\* int(a / b): truncation towards zero
IntTrunc(a, b) == IF a >= 0 THEN a \div b ELSE -((-a) \div b)

\* the locals of display_next_track_and_wait are gone when it returns
WaitReturns ==
    /\ wait_elapsed' = 0
    /\ dwell' = 0
    /\ user_input_received' = FALSE
    /\ line' = NoLine
    /\ wait' = NoWait
    /\ arrival' = NoArrival
    /\ pc' = "seq_next"
    /\ i' = i + 1

\* w_enter without the isatty test
w_enter_any ==
    /\ pc = "w_enter"
    /\ wait_elapsed' = 0
    /\ dwell' = 0
    /\ user_input_received' = FALSE
    /\ line' = NoLine
    /\ wait' = NoWait
    /\ arrival' = NoArrival
    /\ pc' = "w_while"
    /\ i' = i
    /\ UNCHANGED << envVars, sinkVars, repVars, inVars, calls, unloaded,
                    sigVars >>

\* start_time = time.time(); ...; if not sys.stdin.isatty(): print; return
w_enter ==
    /\ pc = "w_enter"
    /\ IF ~isatty
         THEN WaitReturns
         ELSE /\ wait_elapsed' = 0
              /\ dwell' = 0
              /\ user_input_received' = FALSE
              /\ line' = NoLine
              /\ wait' = NoWait
              /\ arrival' = NoArrival
              /\ pc' = "w_while"
              /\ i' = i
    /\ UNCHANGED << envVars, sinkVars, repVars, inVars, calls, unloaded,
                    sigVars >>

\* while (time.time() - start_time) < timeout_seconds and not user_input_received:
\*     remaining = int(timeout_seconds - elapsed_time); if remaining > 0: print else: break
w_while ==
    /\ pc = "w_while"
    /\ LET remaining == IntTrunc(timeout * TicksPerSec - wait_elapsed, TicksPerSec)
       IN  IF wait_elapsed < timeout * TicksPerSec /\ ~user_input_received
                /\ remaining > 0
             THEN /\ pc' = "w_select"
                  /\ wait' = [wait EXCEPT !.iter = @ + 1]
             ELSE /\ pc' = "w_proceed"
                  /\ wait' = wait
    /\ dwell' = 0
    /\ UNCHANGED << envVars, i, sinkVars, repVars, wait_elapsed,
                    user_input_received, line, arrival, inVars, calls, unloaded,
                    sigVars >>

\* IsAdvance without the test of the content: any line that is not end of file
IsAdvance_any(l) == Len(l) > 0

\* if line.strip() == '' and len(line) > 0
IsAdvance(l) == Strip(l) = <<>> /\ Len(l) > 0

\* select.select([sys.stdin], [], [], 1) finds input: line = sys.stdin.readline()
w_select_ready ==
    /\ pc = "w_select"
    /\ stdin # <<>>
    /\ line' = Head(stdin)
    /\ stdin' = Tail(stdin)
    /\ user_input_received' = (user_input_received \/ IsAdvance(Head(stdin)))
    /\ wait' = [wait EXCEPT !.select = @ + 1, !.read = @ + 1,
                            !.lines = Append(@, Head(stdin))]
    /\ pc' = "w_sleep"
    /\ dwell' = 0
    /\ UNCHANGED << envVars, i, sinkVars, repVars, wait_elapsed, arrival,
                    typed, calls, unloaded, sigVars >>

\* select.select([sys.stdin], [], [], 1) returns nothing after its second
w_select_timeout ==
    /\ pc = "w_select"
    /\ stdin = <<>>
    /\ dwell >= SelectSeconds * TicksPerSec
    /\ wait' = [wait EXCEPT !.select = @ + 1]
    /\ pc' = "w_sleep"
    /\ dwell' = 0
    /\ UNCHANGED << envVars, i, sinkVars, repVars, wait_elapsed,
                    user_input_received, line, arrival, inVars, calls, unloaded,
                    sigVars >>

\* time.sleep(1)
w_sleep ==
    /\ pc = "w_sleep"
    /\ dwell >= SleepSeconds * TicksPerSec
    /\ wait' = [wait EXCEPT !.sleep = @ + 1]
    /\ pc' = "w_while"
    /\ dwell' = 0
    /\ UNCHANGED << envVars, i, sinkVars, repVars, wait_elapsed,
                    user_input_received, line, arrival, inVars, calls, unloaded,
                    sigVars >>

\* print("\nProceeding to the next track."); return
w_proceed ==
    /\ pc = "w_proceed"
    /\ WaitReturns
    /\ UNCHANGED << envVars, sinkVars, repVars, inVars, calls, unloaded,
                    sigVars >>

\* ------------------------------------------------------------ signal_handler
\* what the main thread is doing
Phase ==
    CASE pc = "seq_next" /\ i = 1 -> "before"
      [] pc \in {"pa_init", "pa_load", "pa_start", "pa_play", "pa_busy",
                 "pa_close", "pa_unload"} -> "playback"
      [] pc \in {"w_enter", "w_while", "w_select", "w_sleep", "w_proceed"} -> "wait"
      [] OTHER -> "between"

\* signal_handler without sys.exit(0): the handler returns and the main thread
\* goes on where it was
signal_handler_returns ==
    /\ ~signalled
    /\ pc # "exited"
    /\ bars' = CloseBar(bars, progress_bar)
    /\ mixerInit' = FALSE
    /\ sinkLoaded' = 0
    /\ sinkPlaying' = FALSE
    /\ signalled' = TRUE
    /\ sigAt' = [phase |-> Phase, live |-> (LiveReporters # {})]
    /\ UNCHANGED << envVars, pc, i, progress_bar, rpc, elapsed_time, pb_pos,
                    notices, lingering, waitVars, inVars, calls, unloaded,
                    exitStatus >>

\* signal_handler without pygame.mixer.quit()
signal_handler_noquit ==
    /\ ~signalled
    /\ pc # "exited"
    /\ bars' = CloseBar(bars, progress_bar)
    /\ exitStatus' = 0
    /\ signalled' = TRUE
    /\ sigAt' = [phase |-> Phase, live |-> (LiveReporters # {})]
    /\ pc' = "exiting"
    /\ wait_elapsed' = 0
    /\ dwell' = 0
    /\ user_input_received' = FALSE
    /\ line' = NoLine
    /\ wait' = NoWait
    /\ arrival' = NoArrival
    /\ UNCHANGED << envVars, i, sinkVars, progress_bar, rpc, elapsed_time,
                    pb_pos, notices, lingering, inVars, calls, unloaded >>

\* print; if self.progress_bar: self.progress_bar.close(); pygame.mixer.quit();
\* sys.exit(0): SystemExit unwinds the main thread (no except clause catches
\* it), and with it the locals of a wait that was under way
signal_handler ==
    /\ ~signalled
    /\ pc # "exited"
    /\ bars' = CloseBar(bars, progress_bar)
    /\ mixerInit' = FALSE
    /\ sinkLoaded' = 0
    /\ sinkPlaying' = FALSE
    /\ exitStatus' = 0
    /\ signalled' = TRUE
    /\ sigAt' = [phase |-> Phase, live |-> (LiveReporters # {})]
    /\ pc' = "exiting"
    /\ wait_elapsed' = 0
    /\ dwell' = 0
    /\ user_input_received' = FALSE
    /\ line' = NoLine
    /\ wait' = NoWait
    /\ arrival' = NoArrival
    /\ UNCHANGED << envVars, i, progress_bar, rpc, elapsed_time, pb_pos,
                    notices, lingering, inVars, calls, unloaded >>

\* the interpreter ends the process once main has returned or SystemExit has
\* unwound it, after every thread (threading.Thread is non-daemon) has ended
interpreter_exit ==
    /\ pc \in {"finished", "exiting"}
    /\ LiveReporters = {}
    /\ pc' = "exited"
    /\ exitStatus' = IF pc = "finished" THEN 0 ELSE exitStatus
    /\ UNCHANGED << envVars, i, sinkVars, repVars, waitVars, inVars, calls,
                    unloaded, signalled, sigAt >>

\* -------------------------------------------------------------- environment
\* the sink reaches the end of the music it plays
sink_ends ==
    /\ sinkPlaying
    /\ sinkPlaying' = FALSE
    /\ UNCHANGED << envVars, pc, i, mixerInit, sinkLoaded, repVars, waitVars,
                    inVars, calls, unloaded, sigVars >>

InWait == pc \in {"w_while", "w_select", "w_sleep"}

\* a line (or end of file, the empty line) arrives on standard input; a line
\* typed before the wait is one that has arrived when the wait takes its
\* first step
type_line(l) ==
    /\ typed < MaxTyped
    /\ InWait
    /\ stdin' = Append(stdin, l)
    /\ typed' = typed + 1
    /\ arrival' = IF arrival = NoArrival
                     THEN [age |-> 0, at |-> pc, line |-> l]
                     ELSE arrival
    /\ UNCHANGED << envVars, pc, i, sinkVars, repVars, wait_elapsed, dwell,
                    user_input_received, line, wait, calls, unloaded, sigVars >>

\* where the main thread is when time passes; after signal_handler the next
\* turn of every reporter ends it whatever the time
TimeMayPass ==
    \/ pc = "pa_busy" /\ sinkPlaying
    \/ pc = "w_while" /\ dwell < Slop
    \/ pc = "w_select" /\ stdin = <<>> /\ dwell < SelectSeconds * TicksPerSec
    \/ pc = "w_sleep" /\ dwell < SleepSeconds * TicksPerSec
    \/ pc = "finished" /\ LiveReporters # {}

\* the clock of a reporter stops counting one tick past the end of its track:
\* from there on every comparison the loop makes has its final value
Clocked(n) == rpc[n] \in {"loop", "update"} /\ elapsed_time[n] <= total_length(n)

\* the time since a line arrived is followed up to MaxAge ticks
MaxAge == (SelectSeconds + 2 * SleepSeconds) * TicksPerSec + 2 * Slop

\* one tick of time
Tick ==
    /\ TimeMayPass
    /\ InWait \/ \E n \in Tracks : Clocked(n)
    /\ elapsed_time' = [n \in Tracks |->
                          IF Clocked(n) THEN elapsed_time[n] + 1 ELSE elapsed_time[n]]
    /\ wait_elapsed' = IF InWait THEN wait_elapsed + 1 ELSE wait_elapsed
    /\ dwell' = IF InWait THEN dwell + 1 ELSE dwell
    /\ arrival' = IF InWait /\ arrival.age \in 0..(MaxAge - 1)
                     THEN [arrival EXCEPT !.age = @ + 1]
                     ELSE arrival
    /\ UNCHANGED << envVars, pc, i, sinkVars, progress_bar, bars, rpc, pb_pos,
                    notices, lingering, user_input_received, line, wait, inVars,
                    calls, unloaded, sigVars >>

Next ==
    \/ seq_next \/ seq_after
    \/ pa_init \/ pa_load \/ pa_start \/ pa_play \/ pa_busy \/ pa_close \/ pa_unload
    \/ \E n \in Tracks : R_Start(n) \/ R_Assign(n) \/ R_Poll(n) \/ R_Update(n)
    \/ w_enter \/ w_while \/ w_select_ready \/ w_select_timeout \/ w_sleep \/ w_proceed
    \/ signal_handler \/ interpreter_exit
    \/ sink_ends \/ \E l \in Lines : type_line(l)
    \/ Tick

Spec == Init /\ [][Next]_vars

TypeOK ==
    /\ i \in 1..(MaxTracks + 1)
    /\ progress_bar \in 0..MaxTracks
    /\ sinkLoaded \in 0..MaxTracks
    /\ exitStatus \in {-1, 0}
    /\ \A n \in Tracks : elapsed_time[n] \in 0..(MaxLen + 1)

\* ---------------------------------------------------------- get_audio_files
\* A file of the directory: its name as stem and extension, what
\* mutagen.File does with it ("ok": an audio object, "none": None, "raise":
\* an exception), what audio.tags is ("dict", "other": None or not a dict,
\* "error": reading it raises ID3Error) and whether audio.info has channels.
\* Text is a sequence of pieces; the content of a file goes by its stem.
Stems == {"a", "b"}
Exts == {"mp3", "OGG", "txt"}
FileSet == [stem : Stems, ext : Exts, read : {"ok", "none", "raise"},
            tags : {"dict", "other", "error"}, has_channels : BOOLEAN]

\* tags and channels are there to look at only in a file that can be read
Files == {f \in FileSet :
             f.read # "ok" => (f.tags = "other" /\ ~f.has_channels)}

\* audio.info and the ID3 frames of the file with this stem: length in
\* milliseconds, bitrate in bits per second
Info(stem) ==
    IF stem = "a"
      THEN [length |-> 1004, bitrate |-> 128000, sample_rate |-> 44100,
            channels |-> <<"2">>]
      ELSE [length |-> 2996, bitrate |-> 191999, sample_rate |-> 48000,
            channels |-> <<"1">>]
Frame(stem, key) == <<key, stem>>

\* supported_formats = ['mp3', 'wav', 'ogg']
supported_formats == {"mp3", "wav", "ogg"}

\* str.lower() on the extensions of Exts
Lower(e) == IF e = "OGG" THEN "ogg" ELSE e

\* path.join(root, file_name) and path.basename(file_path)
file_path(f) == <<f.stem, ".", f.ext>>
basename(f) == <<f.stem, ".", f.ext>>

\* round(seconds, 2) of a length in milliseconds, in hundredths of a second
Round2(ms) == (ms + 5) \div 10

Unknown == <<"Unknown">>

\* get_audio_metadata(file_path) on self.metadata = md: every exception is
\* caught and printed inside, the keys assigned before it keep their new
\* value and the others the value they had
get_audio_metadata(md, f) ==
    IF f.read # "ok"
      THEN md
      ELSE LET basic == [md EXCEPT
                            !.length = Round2(Info(f.stem).length),
                            !.bitrate = IntTrunc(Info(f.stem).bitrate, 1000),
                            !.sample_rate = Info(f.stem).sample_rate,
                            !.channels = IF f.has_channels
                                           THEN Info(f.stem).channels
                                           ELSE Unknown]
           IN  CASE f.tags = "dict" ->
                      [basic EXCEPT !.title = Frame(f.stem, "TIT2"),
                                    !.artist = Frame(f.stem, "TPE1"),
                                    !.album = Frame(f.stem, "TALB"),
                                    !.genre = Frame(f.stem, "TCON")]
                 [] f.tags = "other" ->
                      [basic EXCEPT !.title = Unknown, !.artist = Unknown,
                                    !.album = Unknown, !.genre = Unknown]
                 [] f.tags = "error" ->
                      [basic EXCEPT !.title = basename(f), !.artist = Unknown,
                                    !.album = Unknown, !.genre = Unknown]

\* dict.get(key, default)
GetNum(v, default) == IF v = -1 THEN default ELSE v
GetText(v, default) == IF v = NoText THEN default ELSE v

\* the dict appended to self.audio_files
TrackOf(f, md) ==
    [path |-> file_path(f),
     album |-> GetText(md.album, <<>>),
     genre |-> GetText(md.genre, <<>>),
     artist |-> GetText(md.artist, <<>>),
     title |-> GetText(md.title, <<>>),
     bitrate |-> GetNum(md.bitrate, 0),
     length |-> GetNum(md.length, 0),
     sample_rate |-> GetNum(md.sample_rate, 0),
     channels |-> GetText(md.channels, <<"0">>)]

\* everything play_sequence and its threads work on
playVars == << audio_list, isatty, timeout, pc, i, sinkVars, repVars, waitVars,
               inVars, calls, unloaded, sigVars >>

\* for file_name in files: ext = ...lower(); if ext in supported_formats:
gaf_file ==
    /\ gpc = "walk"
    /\ fi <= Len(files)
    /\ IF Lower(files[fi].ext) \in supported_formats
         THEN /\ gpc' = "metadata"
              /\ fi' = fi
         ELSE /\ gpc' = "walk"
              /\ fi' = fi + 1
    /\ UNCHANGED << files, metadata, audio_files, playVars >>

\* self.get_audio_metadata(file_path): it returns, whatever happened inside
gaf_metadata ==
    /\ gpc = "metadata"
    /\ metadata' = get_audio_metadata(metadata, files[fi])
    /\ gpc' = "append"
    /\ fi' = fi
    /\ UNCHANGED << files, audio_files, playVars >>

\* self.audio_files.append({...})
gaf_append ==
    /\ gpc = "append"
    /\ audio_files' = Append(audio_files, TrackOf(files[fi], metadata))
    /\ gpc' = "walk"
    /\ fi' = fi + 1
    /\ UNCHANGED << files, metadata, playVars >>

\* return self.audio_files
gaf_return ==
    /\ gpc = "walk"
    /\ fi > Len(files)
    /\ gpc' = "returned"
    /\ UNCHANGED << files, fi, metadata, audio_files, playVars >>

\* the files of a directory tree have paths of their own
DistinctPaths(fs) ==
    \A j \in 1..Len(fs) : \A k \in 1..Len(fs) :
        j # k => file_path(fs[j]) # file_path(fs[k])

\* a new AudioPlayer, get_audio_files called on a directory of at most
\* MaxFiles files
InitCatalog ==
    /\ files \in UNION {[1..k -> Files] : k \in 0..MaxFiles}
    /\ DistinctPaths(files)
    /\ fi = 1
    /\ gpc = "walk"
    /\ metadata = EmptyMetadata
    /\ audio_files = <<>>
    /\ audio_list = <<>>
    /\ isatty = FALSE
    /\ timeout = 0
    /\ pc = "seq_next"
    /\ i = 1
    /\ mixerInit = FALSE
    /\ sinkLoaded = 0
    /\ sinkPlaying = FALSE
    /\ progress_bar = 0
    /\ bars = [n \in Tracks |-> NoBar]
    /\ rpc = [n \in Tracks |-> "none"]
    /\ elapsed_time = [n \in Tracks |-> 0]
    /\ pb_pos = [n \in Tracks |-> 0]
    /\ notices = [n \in Tracks |-> 0]
    /\ lingering = [n \in Tracks |-> FALSE]
    /\ wait_elapsed = 0
    /\ dwell = 0
    /\ user_input_received = FALSE
    /\ line = NoLine
    /\ stdin = <<>>
    /\ typed = 0
    /\ wait = NoWait
    /\ arrival = NoArrival
    /\ calls = <<>>
    /\ unloaded = {}
    /\ signalled = FALSE
    /\ sigAt = [phase |-> "none", live |-> FALSE]
    /\ exitStatus = -1

NextCatalog == gaf_file \/ gaf_metadata \/ gaf_append \/ gaf_return

SpecCatalog == InitCatalog /\ [][NextCatalog]_vars

\* ==================================================================== claims
WaitPcs == {"w_while", "w_select", "w_sleep", "w_proceed"}

\* the reporter thread is in its polling loop
Polling(n) == rpc[n] \in {"loop", "update"}

\* C1: no reporter started for an earlier track is still in its polling loop
\* once play_audio has started the reporter thread of a later track (so that
\* at most one reporter polls at any instant).
C1_AtMostOneReporter ==
    \A n \in Tracks : \A m \in Tracks :
        (n < m /\ rpc[m] # "none") => ~Polling(n)

\* C2: the sink is never unloaded for a track while that track's reporter
\* thread is still in its polling loop (a reporter never starts again, so one
\* that polls after the unload polled through it), and a track is loaded only
\* after the sink has been unloaded for every earlier track that was loaded.
C2_ReporterEndsBeforeUnload ==
    /\ \A n \in unloaded : ~Polling(n)
    /\ \A n \in 1..total_tracks :
          sinkLoaded = n =>
             \A m \in 1..(n - 1) : audio_list[m].loadable => m \in unloaded

\* C3: once play_audio has closed the bar of a reporter before the end of the
\* track (elapsed < total), the reporter leaves its loop at its next turn: no
\* reporter polls in that situation and stays in the loop.
C3_StopsWhenTold == \A n \in Tracks : ~lingering[n]

\* C4: whenever play_audio has returned for track i, having initialised the
\* mixer, it has unloaded the sink for that track.
C4_UnloadOnEveryReturn == (pc = "seq_after" /\ mixerInit) => i \in unloaded

\* C5: once signal_handler has run, play_sequence makes no further call (no
\* play_audio, no wait) and nothing is loaded or played.
C5_NoTrackAfterSignal ==
    [][signalled' => (calls' = calls /\ sinkLoaded' = 0 /\ ~sinkPlaying')]_vars

C5_Witness ==
    /\ pc = "exited" /\ signalled
    /\ sigAt.phase = "wait"
    /\ i < total_tracks
    /\ calls = << <<"play_audio", 1>>, <<"wait", 2>> >>

\* C6: when the process exits after a signal, the exit status is 0, no reporter
\* thread is running and the sink is released (nothing loaded, nothing playing,
\* mixer quit), wherever the signal arrived.
C6_CleanExitAfterSignal ==
    (signalled /\ pc = "exited") =>
        /\ exitStatus = 0
        /\ LiveReporters = {}
        /\ ~mixerInit /\ sinkLoaded = 0 /\ ~sinkPlaying

C6_Witness ==
    /\ pc = "exited" /\ signalled
    /\ sigAt.phase = "playback" /\ sigAt.live

\* the calls play_sequence is to make over k tracks
Expected(k) ==
    [j \in 1..(2 * k - 1) |->
        IF j % 2 = 1 THEN <<"play_audio", (j + 1) \div 2>>
                     ELSE <<"wait", j \div 2 + 1>>]

IsPrefix(a, b) == Len(a) <= Len(b) /\ SubSeq(b, 1, Len(a)) = a

\* C7: the calls of play_sequence are at every moment a prefix of
\* play_audio(1), wait(2), play_audio(2), ..., play_audio(N), and with no
\* signal the run ends with exactly that sequence.
C7_FullListOnce ==
    /\ IsPrefix(calls, Expected(total_tracks))
    /\ (pc = "finished" \/ (pc = "exited" /\ ~signalled))
          => calls = Expected(total_tracks)

C7_Witness == pc = "exited" /\ ~signalled /\ total_tracks = MaxTracks

WhitespaceOnly(l) == Len(l) > 0 /\ \A k \in 1..Len(l) : l[k] \in {" ", "\n"}

C9_TimeoutBounds ==
    (isatty /\ typed = 0) =>
        /\ pc = "w_proceed" => wait_elapsed >= timeout * TicksPerSec
        /\ pc \in WaitPcs =>
              wait_elapsed <= (timeout + SelectSeconds) * TicksPerSec + Slop

\* C10: when standard input is no terminal the wait does nothing: no turn of
\* the countdown loop, no select, no readline, no sleep, and no time passes
\* in it, whatever the timeout.
C10_NoWaitWithoutTty ==
    ~isatty =>
        /\ pc \notin WaitPcs
        /\ wait = NoWait
        /\ wait_elapsed = 0
        /\ Len(stdin) = typed

C10_Witness ==
    /\ ~isatty /\ timeout = MaxTimeout
    /\ IsPrefix(<< <<"play_audio", 1>>, <<"wait", 2>>, <<"play_audio", 2>> >>, calls)
    /\ pc = "pa_busy"

\* the sink is still busy with track n and no signal has arrived: a reporter
\* of track n that has ended ended by the break at the end of the track
PlayedThrough(n) == sinkLoaded = n /\ sinkPlaying /\ ~signalled

\* C11: when the reporter of a track of length T > 0 has left its loop while
\* the sink was busy with the track throughout, the position of its bar is T
\* (T <= position <= T * (1 + 1E-6)).
C11_BarReachesEnd ==
    \A n \in Tracks :
        (n <= total_tracks /\ total_length(n) > 0 /\ rpc[n] = "done"
            /\ PlayedThrough(n))
        => /\ bars[n].n >= total_length(n)
           /\ bars[n].n * EpsDen <= total_length(n) * (EpsDen + 1)

\* the favourable schedule: the bar did reach T
C11_Reached ==
    \E n \in Tracks :
        /\ n <= total_tracks /\ total_length(n) > 0 /\ rpc[n] = "done"
        /\ PlayedThrough(n)
        /\ bars[n].n = total_length(n)

\* C12: the reporter of a track of length 0 prints the notice exactly once as
\* it ends, creates no bar, makes no position update and never is in the
\* polling loop; play_audio starts it, plays the track and, when it returns,
\* has unloaded the sink.
C12_ZeroLengthNoBar ==
    \A n \in 1..total_tracks :
        total_length(n) = 0 =>
            /\ rpc[n] \in {"none", "start", "done"}
            /\ notices[n] = IF rpc[n] = "done" THEN 1 ELSE 0
            /\ bars[n] = NoBar /\ pb_pos[n] = 0 /\ progress_bar # n
            /\ (i = n /\ pc \in {"pa_play", "pa_busy", "pa_close", "pa_unload"})
                  => (rpc[n] # "none" /\ sinkLoaded = n)
            /\ (i = n /\ pc \in {"pa_close", "pa_unload"}) => ~sinkPlaying
            /\ (i = n /\ pc = "seq_after" /\ audio_list[n].loadable)
                  => (n \in unloaded /\ sinkLoaded = 0)

C12_Witness ==
    /\ pc = "seq_after" /\ i \in unloaded
    /\ total_length(i) = 0
    /\ rpc[i] = "done" /\ notices[i] = 1

\* what get_audio_files looks at: the files with a supported extension
Supported(f) == Lower(f.ext) \in supported_formats
Paths(fs) == [k \in 1..Len(fs) |-> fs[k].path]
PathsOfFiles(fs) == [k \in 1..Len(fs) |-> file_path(fs[k])]
Readable(f) == Supported(f) /\ f.read = "ok"

\* C13: when get_audio_files has returned, the catalog holds the supported
\* files whose metadata could be read, in traversal order, and no file whose
\* metadata read failed.
C13_FailedFileExcluded ==
    gpc = "returned" =>
        Paths(audio_files) = PathsOfFiles(SelectSeq(files, Readable))

\* a scan of three supported files, the second of which cannot be read, that
\* went through to the end with the two others in the catalog
C13_OthersKept ==
    /\ gpc = "returned" /\ Len(files) = 3
    /\ \A k \in 1..3 : Supported(files[k])
    /\ files[1].read = "ok" /\ files[2].read = "raise" /\ files[3].read = "ok"
    /\ \E j \in 1..Len(audio_files) : \E k \in 1..Len(audio_files) :
          /\ j < k
          /\ audio_files[j].path = file_path(files[1])
          /\ audio_files[k].path = file_path(files[3])

\* the record get_audio_files makes of f when f is the first file it meets
ScannedAlone(f) == TrackOf(f, get_audio_metadata(EmptyMetadata, f))

\* C14: every record of the catalog is the record its file gets when it is
\* scanned with no file before it: no field comes from a file processed
\* earlier.
C14_OwnFieldsOnly ==
    \A k \in 1..Len(audio_files) : \A j \in 1..Len(files) :
        audio_files[k].path = file_path(files[j])
            => audio_files[k] = ScannedAlone(files[j])

\* a scan in which every file could be read: each record is its file's own
C14_AllReadable ==
    /\ gpc = "returned" /\ Len(audio_files) = 3
    /\ \A j \in 1..Len(files) : files[j].read = "ok"
    /\ audio_files[1].title # audio_files[2].title
    /\ \A k \in 1..3 : audio_files[k] = ScannedAlone(files[k])

PlaybackPcs == {"pa_start", "pa_play", "pa_busy", "pa_close", "pa_unload"}

\* C15: for a track n the sink cannot load, play_audio starts no reporter
\* thread (no bar, no notice), loads and plays nothing and returns before the
\* playback steps; once play_sequence is past n it has made the wait call
\* for n + 1 right after play_audio(n), and at the end of the run every later
\* track has been passed to play_audio, in order.
C15_LoadFailureSkipsTrack ==
    \A n \in 1..total_tracks :
        ~audio_list[n].loadable =>
            /\ rpc[n] = "none" /\ bars[n] = NoBar /\ notices[n] = 0
            /\ sinkLoaded # n /\ n \notin unloaded
            /\ i = n => (pc \notin PlaybackPcs /\ ~sinkPlaying)
            /\ (i > n /\ n < total_tracks) =>
                  /\ Len(calls) >= 2 * n
                  /\ calls[2 * n - 1] = <<"play_audio", n>>
                  /\ calls[2 * n] = <<"wait", n + 1>>
            /\ pc = "finished" =>
                  /\ Len(calls) = 2 * total_tracks - 1
                  /\ \A m \in n..total_tracks :
                        calls[2 * m - 1] = <<"play_audio", m>>

C15_Witness ==
    /\ pc = "finished" /\ total_tracks = 2 /\ isatty
    /\ ~audio_list[1].loadable /\ audio_list[2].loadable
    /\ 2 \in unloaded /\ rpc[2] = "done"
    /\ typed = 0 /\ timeout > 0

WaitLoopPcs == {"w_while", "w_select", "w_sleep"}

C17_MonotoneWithinRange ==
    \A n \in 1..total_tracks :
        (total_length(n) > 0 /\ bars[n] # NoBar) =>
            /\ bars[n].n \in 0..total_length(n)
            /\ rpc[n] = "update" =>
                  /\ pb_pos[n] \in 0..total_length(n)
                  /\ pb_pos[n] - bars[n].n >= 0

C17_Witness ==
    \E n \in 1..total_tracks :
        /\ total_length(n) = MaxLen
        /\ rpc[n] = "update" /\ ~bars[n].closed
        /\ bars[n].n > 0 /\ pb_pos[n] > bars[n].n

\* the position of the bar of reporter n changes in this step
Moved(n) == bars[n] # NoBar /\ bars'[n] # NoBar /\ bars'[n].n # bars[n].n

\* C18: every step that changes the position of a bar is taken in a state
\* where the sink is busy.
C18_UpdateOnlyWhileBusy ==
    [][\A n \in Tracks : Moved(n) => sinkPlaying]_vars

\* a position has been applied while the sink was busy: the bar has moved and
\* the sink still plays
C18_MovedWhileBusy ==
    \E n \in Tracks :
        /\ sinkLoaded = n /\ sinkPlaying /\ pc = "pa_busy"
        /\ rpc[n] = "loop" /\ ~bars[n].closed /\ bars[n].n > 0

\* play_audio closes what self.progress_bar holds
PlayAudioCloses == pc = "pa_close" /\ pc' = "pa_unload"

\* signal_handler runs while play_audio is between pb_thread.start() and its
\* own close of the bar
SignalDuringPlayback ==
    ~signalled /\ signalled' /\ pc \in {"pa_play", "pa_busy", "pa_close"}

\* C19: when play_audio, after the playback of a track of known length has
\* stopped, or signal_handler during that playback, closes what
\* self.progress_bar holds, it holds the bar of the reporter of the current
\* track i: not None, not the bar of an earlier track.
C19_ClosesCurrentBar ==
    [][((PlayAudioCloses \/ SignalDuringPlayback) /\ total_length(i) > 0)
          => progress_bar = i]_vars

\* play_audio has closed the bar of the current track, whose reporter is in
\* its loop
C19_ClosedCurrent ==
    /\ pc = "pa_unload" /\ progress_bar = i
    /\ rpc[i] = "loop" /\ bars[i].closed

====
